---------------------------- MODULE Spec2Model ----------------------------
(***************************************************************************)
(* Model of app.py: the start-up pipeline that loads the CSV tables, joins *)
(* the site rows to the mineral and country tables, validates every site   *)
(* against the centroid of its country, corrects transposed coordinates,   *)
(* logs the decisions and exports the corrected table; and the request     *)
(* handlers that later read the result.                                    *)
(*                                                                         *)
(* Coordinates are Python floats in the source and doubles here: a sum or   *)
(* a difference is rounded to 53 bits as the source rounds it, so a record *)
(* that as decimals lies on the edge of the window, or equally far from    *)
(* the centroid either way, is decided as the source decides it.           *)
(***************************************************************************)
EXTENDS Integers, Sequences, FiniteSets, TLC

VARIABLES
    sites_csv,          \* data/sites.csv: [ok, rows]
    minerals_csv,       \* data/minerals.csv: [ok, rows]
    extra_minerals_csv, \* data/extra_minerals.csv: [ok, rows]
    countries_csv,      \* data/countries.csv: [ok, rows]
    sites_fixed_csv,    \* data/sites_fixed.csv: [ok, rows], ok = the file exists
    minerals_df,        \* [defined, rows]: the module global minerals_df
    countries_df,       \* [defined, rows]: the module global countries_df
    sites_df,           \* the frame of line 90, joined by lines 94-95
    sites,              \* the module global sites: a list of dicts
    corrections,        \* the event log
    corrected_sites,    \* the list the loop appends to
    idx,                \* position of the loop of line 107 (1-based)
    pass,               \* 1: the start-up run; 2: a run over its own output
    first_sites,        \* sites as the first run left them (set by Rerun)
    console,            \* what was printed, one string per line
    pc,                 \* position in the module-level script
    users_csv,          \* data/users.csv: [ok, rows]
    roles_csv,          \* data/roles.csv: [ok, rows]
    users,              \* the module global users: Username -> row
    roles_df,           \* [defined, rows]: the module global roles_df
    PERMISSIONS,        \* the module global PERMISSIONS: RoleName -> permissions
    session,            \* the Flask session of the one client: a dict
    response,           \* the last response: [route, result], and for the charts
                        \* the query parameters and the rows charted
    minerals,           \* the module global minerals: MineralName -> row
    countries,          \* the module global countries: CountryName -> row
    insights,           \* the module global insights: a list of dicts
    production_stats_csv, \* data/production_stats.csv: [ok, rows]
    df                  \* [defined, rows, columns]: the module global df

\* The files the program only reads.
inFiles == <<sites_csv, minerals_csv, extra_minerals_csv, countries_csv,
             users_csv, roles_csv, production_stats_csv>>

\* What the site pipeline computes.
pipeVars == <<sites_fixed_csv, minerals_df, countries_df, sites_df, sites,
              corrections, corrected_sites, idx, pass, first_sites>>

\* What the web layer adds.
webVars == <<users, roles_df, PERMISSIONS, session, response>>

\* What the admin panel and the insight forms change.
adminVars == <<minerals, countries, insights>>

vars == <<inFiles, pipeVars, webVars, adminVars, df, console, pc>>

(***************************************************************************)
(* Floats.  A float is NaN or a double, kept as sign and magnitude; the    *)
(* magnitude is a whole number of units of 2^-52, written in three limbs    *)
(* of 21 bits, most significant first.  Every double of magnitude 1 to 512 *)
(* and zero is such a number, and so are the sums and differences of such  *)
(* doubles after rounding.                                                 *)
(***************************************************************************)
Micro == 1000 * 1000                     \* micro-degrees per degree
Limb == 2097152                          \* 2^21

MagZero == <<0, 0, 0>>

MagLt(x, y) ==
    \/ x[1] < y[1]
    \/ x[1] = y[1] /\ x[2] < y[2]
    \/ x[1] = y[1] /\ x[2] = y[2] /\ x[3] < y[3]

MagAdd(x, y) ==
    LET c == x[3] + y[3]
        b == x[2] + y[2] + (c \div Limb)
        a == x[1] + y[1] + (b \div Limb)
    IN  <<a, b % Limb, c % Limb>>

\* x - y for x >= y.
MagSub(x, y) ==
    LET c == x[3] - y[3]
        b == x[2] - y[2] - (IF c < 0 THEN 1 ELSE 0)
        a == x[1] - y[1] - (IF b < 0 THEN 1 ELSE 0)
    IN  <<a, IF b < 0 THEN b + Limb ELSE b, IF c < 0 THEN c + Limb ELSE c>>

MagHalf(x) ==
    <<x[1] \div 2,
      (x[2] \div 2) + (x[1] % 2) * (Limb \div 2),
      (x[3] \div 2) + (x[2] % 2) * (Limb \div 2)>>

\* The bits of a magnitude beyond 53: it has 42 + the bits of its first limb.
RECURSIVE Excess(_)
Excess(a) == IF a < 2048 THEN 0 ELSE 1 + Excess(a \div 2)

\* Round to nearest, ties to even, to 53 significant bits.  sticky: the
\* number has a fraction of a unit beyond the magnitude.
Round53(x, sticky) ==
    LET j == Excess(x[1])
        q == 2 ^ j
        r == x[3] % q
        half == q \div 2
        odd == (x[3] \div q) % 2 = 1
        up == r > half \/ (r = half /\ (sticky \/ odd))
    IN  IF j = 0 THEN x
        ELSE MagAdd(<<x[1], x[2], x[3] - r>>, <<0, 0, IF up THEN q ELSE 0>>)

\* n \div d and n % d for a number n of four limbs and d < 1024.
DivSmall(n, d) ==
    LET t2 == (n[1] % d) * Limb + n[2]
        t3 == (t2 % d) * Limb + n[3]
        t4 == (t3 % d) * Limb + n[4]
    IN  [q |-> <<n[1] \div d, t2 \div d, t3 \div d, t4 \div d>>, r |-> t4 % d]

\* The double nearest to x / 10^6, for x = 0 or 10^6 <= |x| < 512 * 10^6:
\* what the parser gives for a literal and float() for a string.  The
\* quotient |x| * 2^53 / 10^6 = |x| * 2^47 / 125 / 125 is rounded in units
\* of 2^-53 and halved.
Dec(x) ==
    LET ax == IF x < 0 THEN -x ELSE x
        lo == (ax % Limb) * 32
        n == <<(ax \div Limb) * 32 + (lo \div Limb), lo % Limb, 0, 0>>
        d1 == DivSmall(n, 125)
        d2 == DivSmall(d1.q, 125)
        q == <<d2.q[2], d2.q[3], d2.q[4]>>
    IN  [neg |-> x < 0, m |-> MagHalf(Round53(q, d1.r # 0 \/ d2.r # 0))]

NaN == [nan |-> TRUE, v |-> [neg |-> FALSE, m |-> MagZero]]
Fl(x) == [nan |-> FALSE, v |-> Dec(x)]

\* The double nearest to the sum of two doubles.
VAdd(x, y) ==
    IF x.neg = y.neg
      THEN [neg |-> x.neg, m |-> Round53(MagAdd(x.m, y.m), FALSE)]
    ELSE IF x.m = y.m THEN [neg |-> FALSE, m |-> MagZero]
    ELSE IF MagLt(x.m, y.m)
      THEN [neg |-> y.neg, m |-> Round53(MagSub(y.m, x.m), FALSE)]
    ELSE [neg |-> x.neg, m |-> Round53(MagSub(x.m, y.m), FALSE)]

VNeg(x) == IF x.m = MagZero THEN x ELSE [x EXCEPT !.neg = ~x.neg]

VLt(x, y) ==
    IF x.neg /\ ~y.neg THEN TRUE
    ELSE IF ~x.neg /\ y.neg THEN FALSE
    ELSE IF x.neg THEN MagLt(y.m, x.m)
    ELSE MagLt(x.m, y.m)

FSub(a, b) == IF a.nan \/ b.nan THEN NaN ELSE [nan |-> FALSE, v |-> VAdd(a.v, VNeg(b.v))]
FAdd(a, b) == IF a.nan \/ b.nan THEN NaN ELSE [nan |-> FALSE, v |-> VAdd(a.v, b.v)]
FAbs(a) == IF a.nan THEN NaN ELSE [nan |-> FALSE, v |-> [a.v EXCEPT !.neg = FALSE]]
\* Every ordered comparison with a NaN is False.
FGt(a, b) == ~a.nan /\ ~b.nan /\ VLt(b.v, a.v)
FLt(a, b) == ~a.nan /\ ~b.nan /\ VLt(a.v, b.v)
FLe(a, b) == ~a.nan /\ ~b.nan /\ ~VLt(b.v, a.v)
FGe(a, b) == ~a.nan /\ ~b.nan /\ ~VLt(a.v, b.v)

(***************************************************************************)
(* Cells of a row as pandas hands them to the loop.                        *)
(*   float : a number (NaN for an empty field)                             *)
(*   str   : a string that float() parses, with the value it parses to;    *)
(*           read_csv gives one only in a column that also holds a text    *)
(*   text  : a string float() rejects with ValueError                      *)
(*   absent: the row has no such key (the CSV has no such column)          *)
(***************************************************************************)
NumCell(x) == [k |-> "float", nan |-> FALSE, v |-> Dec(x)]
NaNCell == [k |-> "float", nan |-> TRUE, v |-> NaN.v]
StrCell(x) == [k |-> "str", nan |-> FALSE, v |-> Dec(x)]
TextCell == [k |-> "text", nan |-> TRUE, v |-> NaN.v]
AbsentCell == [k |-> "absent", nan |-> TRUE, v |-> NaN.v]
FloatCell(f) == [k |-> "float", nan |-> f.nan, v |-> f.v]

\* float(s.get(key, 0)): ok = FALSE when float() raises.
PyFloat(c) ==
    IF c.k = "text" THEN [ok |-> FALSE, f |-> NaN]
    ELSE IF c.k = "absent" THEN [ok |-> TRUE, f |-> Fl(0)]
    ELSE [ok |-> TRUE, f |-> [nan |-> c.nan, v |-> c.v]]

\* An absent name (NaN after a left join that found no match).
NoName == "<NaN>"
\* s.get('Note') of a dict that has no 'Note' key.
NoNote == "<no key>"
SwapNote == "Swapped lat/lon due to large mismatch with country centroid."
ReviewNote == "Coordinate far from assigned country centroid; left unchanged for manual review."

country_centroids ==
    [n \in {"DRC (Congo)", "South Africa", "Mozambique", "Namibia"} |->
        CASE n = "DRC (Congo)" -> <<Fl(-4038333), Fl(21758664)>>
          [] n = "South Africa" -> <<Fl(-30559482), Fl(22937506)>>
          [] n = "Mozambique" -> <<Fl(-18665695), Fl(35529562)>>
          [] n = "Namibia" -> <<Fl(-22957600), Fl(18490400)>>]


(***************************************************************************)
(* The decision of the validation loop (lines 115-127).                    *)
(***************************************************************************)
\* Mutant of LookupCentroid: a lookup with a default, .get(cname, (0, 0)).
LookupCentroidDefault(cname) ==
    IF cname \in DOMAIN country_centroids
      THEN [found |-> TRUE, c |-> country_centroids[cname]]
      ELSE [found |-> TRUE, c |-> <<Fl(0), Fl(0)>>]

\* Lines 115-116: cname in country_centroids, and the centroid when it is.
LookupCentroid(cname) ==
    IF cname \in DOMAIN country_centroids
      THEN [found |-> TRUE, c |-> country_centroids[cname]]
      ELSE [found |-> FALSE, c |-> <<NaN, NaN>>]

\* Mutant of Outside: >= for >.
OutsideOrOnEdge(lat, lon, c) ==
    \/ FGe(FAbs(FSub(lat, c[1])), Fl(10 * Micro))
    \/ FGe(FAbs(FSub(lon, c[2])), Fl(20 * Micro))

\* Line 119: the site lies outside the 10 / 20 degree window.
Outside(lat, lon, c) ==
    \/ FGt(FAbs(FSub(lat, c[1])), Fl(10 * Micro))
    \/ FGt(FAbs(FSub(lon, c[2])), Fl(20 * Micro))

\* Lines 123-125.
dist_orig(lat, lon, c) == FAdd(FAbs(FSub(lat, c[1])), FAbs(FSub(lon, c[2])))
dist_swapped(lat, lon, c) == FAdd(FAbs(FSub(lon, c[1])), FAbs(FSub(lat, c[2])))

\* Mutants of SwapCloser: <= for <, and no test at all.
SwapCloserOrTie(lat, lon, c) == FLe(dist_swapped(lat, lon, c), dist_orig(lat, lon, c))
SwapAlways(lat, lon, c) == TRUE

\* Line 127.
SwapCloser(lat, lon, c) == FLt(dist_swapped(lat, lon, c), dist_orig(lat, lon, c))

\* Mutant of SwapEvent: the old pair is read back from the record after the
\* swap was written.
SwapEventAfterWrite(s, cname, lat, lon) ==
    [SiteID |-> s.SiteID, SiteName |-> s.SiteName, CountryName |-> cname,
     action |-> "swap_latlon", old |-> <<lon, lat>>, new |-> <<lon, lat>>]

\* Lines 128-132: the event and the record of a swap.
SwapEvent(s, cname, lat, lon) ==
    [SiteID |-> s.SiteID, SiteName |-> s.SiteName, CountryName |-> cname,
     action |-> "swap_latlon", old |-> <<lat, lon>>, new |-> <<lon, lat>>]

\* Mutant of SwapWrite: the longitude is read back after the latitude was
\* overwritten.
SwapWriteClobbered(s, lat, lon) ==
    [s EXCEPT !.Latitude = FloatCell(lon), !.Longitude = FloatCell(lon),
              !.Note = SwapNote]

SwapWrite(s, lat, lon) ==
    [s EXCEPT !.Latitude = FloatCell(lon), !.Longitude = FloatCell(lat),
              !.Note = SwapNote]

\* Lines 135-137: the event and the record of a mismatch.
MismatchEvent(s, cname, lat, lon, c) ==
    [SiteID |-> s.SiteID, SiteName |-> s.SiteName, CountryName |-> cname,
     action |-> "mismatch", old |-> <<lat, lon>>, country_centroid |-> c]

\* Mutant of MismatchWrite: the record is snapped to the centroid.
MismatchSnap(s) ==
    [s EXCEPT !.Latitude = FloatCell(country_centroids[s.CountryName][1]),
              !.Longitude = FloatCell(country_centroids[s.CountryName][2]),
              !.Note = ReviewNote]

\* Mutant of MismatchWrite: the country, taken to be mis-assigned, is cleared.
MismatchClearsCountry(s) == [s EXCEPT !.CountryName = NoName, !.Note = ReviewNote]

\* Mutant of MismatchWrite: the transposed pair is written before the test
\* and stays written when the test fails.
MismatchTransposes(s) ==
    [s EXCEPT !.Latitude = s.Longitude, !.Longitude = s.Latitude,
              !.Note = ReviewNote]

MismatchWrite(s) == [s EXCEPT !.Note = ReviewNote]

\* One iteration of the loop of line 107 on the dict s: the dict as the
\* iteration leaves it and the events it appends.
ValidateSite(s) ==
    LET plat == PyFloat(s.Latitude)
        plon == PyFloat(s.Longitude)
        lat == plat.f
        lon == plon.f
        cname == s.CountryName
    IN  IF ~plat.ok \/ ~plon.ok
          THEN [site |-> s, events |-> <<>>]
        ELSE IF ~LookupCentroid(cname).found
          THEN [site |-> s, events |-> <<>>]
        ELSE LET c == LookupCentroid(cname).c
             IN  IF ~Outside(lat, lon, c)
                   THEN [site |-> s, events |-> <<>>]
                 ELSE IF SwapCloser(lat, lon, c)
                   THEN [site |-> SwapWrite(s, lat, lon),
                         events |-> <<SwapEvent(s, cname, lat, lon)>>]
                 ELSE [site |-> MismatchWrite(s),
                       events |-> <<MismatchEvent(s, cname, lat, lon, c)>>]

(***************************************************************************)
(* The joins (lines 92-96).  DataFrame.merge(how='left') with the right    *)
(* frame indexed by the identifier keeps the left rows in order and gives  *)
(* one output row per matching right row, or one row with a NaN name when  *)
(* no right row matches.                                                   *)
(***************************************************************************)
RECURSIVE LeftMerge(_, _, _, _)
LeftMerge(left, right, key, namecol) ==
    IF left = <<>> THEN <<>>
    ELSE LET row == Head(left)
             Hit(r) == r[key] = row[key]
             m == SelectSeq(right, Hit)
             out == IF m = <<>>
                      THEN <<row @@ (namecol :> NoName)>>
                      ELSE [j \in 1..Len(m) |-> row @@ (namecol :> m[j][namecol])]
         IN  out \o LeftMerge(Tail(left), right, key, namecol)

\* Lines 94-95.
JoinSites(rows, mdf, cdf) ==
    LeftMerge(LeftMerge(rows, mdf, "MineralID", "MineralName"),
              cdf, "CountryID", "CountryName")

\* Line 96: to_dict('records').  A dict has no 'Note' key until the loop
\* sets one.
ToRecords(frame) == [k \in 1..Len(frame) |-> frame[k] @@ ("Note" :> NoNote)]

\* Line 37: pd.concat([minerals_df, extra_minerals_df], ignore_index=True).
ConcatFrames(a, b) == a \o b

(***************************************************************************)
(* Inputs: the files on disk when the program starts.                      *)
(***************************************************************************)
MaxSites == 2                            \* rows of data/sites.csv

Unreadable == [ok |-> FALSE, rows |-> <<>>]
File(rows) == [ok |-> TRUE, rows |-> rows]

SiteNames == <<"Alpha", "Bravo", "Charlie", "Delta">>

\* (latitude, longitude) cells, in micro-degrees.
Johannesburg == <<NumCell(-26200000), NumCell(28000000)>>
Transposed == <<NumCell(28000000), NumCell(-26200000)>>   \* Johannesburg, transposed
FarBothWays == <<NumCell(60000000), NumCell(-10000000)>>  \* closer transposed, still far
\* Equally far from the centroid of South Africa either way, as doubles too.
Tie == <<NumCell(60000000), NumCell(50000000)>>
FartherSwapped == <<NumCell(10000000), NumCell(30000000)>>
\* Exactly 10 and 20 degrees from the centroid of DRC (Congo), and one
\* micro-degree further.
OnEdge == <<NumCell(5961667), NumCell(1758664)>>
PastEdge == <<NumCell(5961668), NumCell(1758664)>>
EmptyLat == <<NaNCell, NumCell(100000000)>>               \* empty latitude field
EmptyLon == <<NumCell(-26200000), NaNCell>>               \* empty longitude field
TextLat == <<TextCell, NumCell(28000000)>>                \* non-numeric latitude
TextLon == <<NumCell(60000000), TextCell>>                \* non-numeric longitude
\* Johannesburg transposed, in a file whose Latitude (Longitude) column also
\* holds a text, so that the number is read as a string.
StrLat == <<StrCell(28000000), NumCell(-26200000)>>
StrLon == <<NumCell(28000000), StrCell(-26200000)>>
\* 10 and 20 degrees from the centroid of DRC (Congo) as decimals; the
\* difference of the two longitudes as doubles is more than 20.
EdgeRounded == <<NumCell(5961667), NumCell(41758664)>>
\* Ten degrees south of the centroid of South Africa as decimals; as doubles
\* the difference of the latitudes is more than ten.
LatEdgeRounded == <<NumCell(-40559482), NumCell(22937506)>>
\* Equally far from the centroid of DRC (Congo) either way as decimals; as
\* doubles the transposed pair is closer.
DecimalTie == <<NumCell(53252020), NumCell(57735494)>>
\* Rows of a CSV without a Latitude (Longitude) column.
NoLatColumn == <<AbsentCell, NumCell(-30000000)>>
NoLonColumn == <<NumCell(-30000000), AbsentCell>>

RowChoice(cid, mid, p) ==
    [CountryID |-> cid, MineralID |-> mid, Latitude |-> p[1], Longitude |-> p[2]]

\* Country 1 is South Africa, 2 DRC (Congo), 3 Zambia (no centroid); 4 is in
\* no row of countries.csv.  Mineral 1 is in minerals.csv, 3 in no file.
RowChoices ==
    {RowChoice(1, 1, p) : p \in {Johannesburg, Transposed, FarBothWays, Tie,
                                  FartherSwapped, EmptyLat, TextLat, StrLat, StrLon,
                                  LatEdgeRounded}}
    \cup {RowChoice(2, 1, p) : p \in {OnEdge, PastEdge, Tie, EmptyLon, FarBothWays,
                                      EdgeRounded, DecimalTie}}
    \cup {RowChoice(cid, 1, p) : cid \in {3, 4}, p \in {Transposed, EmptyLat, TextLon}}
    \cup {RowChoice(1, mid, Johannesburg) : mid \in {2, 3}}
    \cup {RowChoice(1, 1, p) : p \in {NoLatColumn, NoLonColumn}}

SiteRow(k, ch) ==
    [SiteID |-> k, SiteName |-> SiteNames[k], MineralID |-> ch.MineralID,
     CountryID |-> ch.CountryID, Latitude |-> ch.Latitude,
     Longitude |-> ch.Longitude, Production_tonnes |-> 1000 * k]

\* The frames read_csv can give.  A column is in every row or in none; it
\* holds floats (NaN for an empty field) when every field is a number or
\* empty, and otherwise strings, and NaN for an empty field.
ColumnsOK(rows) ==
    \A col \in {"Latitude", "Longitude"} :
        \/ \A k \in DOMAIN rows : rows[k][col].k = "absent"
        \/ \A k \in DOMAIN rows : rows[k][col].k = "float"
        \/ /\ \E k \in DOMAIN rows : rows[k][col].k = "text"
           /\ \A k \in DOMAIN rows :
                \/ rows[k][col].k \in {"text", "str"}
                \/ rows[k][col].k = "float" /\ rows[k][col].nan

SiteFiles ==
    {Unreadable} \cup
    UNION {{File([k \in 1..n |-> SiteRow(k, f[k])])
              : f \in {g \in [1..n -> RowChoices] : ColumnsOK(g)}}
           : n \in 0..MaxSites}

MineralRow(id, name) == [MineralID |-> id, MineralName |-> name]
CountryRow(id, name) == [CountryID |-> id, CountryName |-> name]

CountryFile ==
    File(<<CountryRow(1, "South Africa"), CountryRow(2, "DRC (Congo)"),
           CountryRow(3, "Zambia")>>)

ProductionRow(year, mid, cid) ==
    [Year |-> year, MineralID |-> mid, CountryID |-> cid,
     Production_tonnes |-> 100, ExportValue_BillionUSD |-> 1]

\* The header of production_stats.csv: the columns lines 55-56 and 420-423
\* read.
ProductionColumns ==
    {"Year", "MineralID", "CountryID", "Production_tonnes", "ExportValue_BillionUSD"}

\* A file read by read_csv with its header; a file may hold the header alone.
TableFile(columns, rows) == [ok |-> TRUE, rows |-> rows, columns |-> columns]

ProductionFile ==
    TableFile(ProductionColumns, <<ProductionRow(2020, 1, 1), ProductionRow(2021, 2, 4)>>)

\* [minerals.csv, extra_minerals.csv, countries.csv, production_stats.csv]
RefFiles ==
    <<File(<<MineralRow(1, "Gold")>>), File(<<MineralRow(2, "Cobalt")>>), CountryFile,
      ProductionFile>>

\* production_stats.csv cannot be read.
NoProductionFiles ==
    <<File(<<MineralRow(1, "Gold")>>), File(<<MineralRow(2, "Cobalt")>>), CountryFile,
      Unreadable>>

\* production_stats.csv holds its header and no row.
HeaderOnlyProductionFiles ==
    <<File(<<MineralRow(1, "Gold")>>), File(<<MineralRow(2, "Cobalt")>>), CountryFile,
      TableFile(ProductionColumns, <<>>)>>

OtherRefFiles ==
    { \* the two mineral files share an identifier
      <<File(<<MineralRow(1, "Gold")>>), File(<<MineralRow(1, "Gold ore")>>), CountryFile,
        ProductionFile>>,
      <<File(<<MineralRow(1, "Gold")>>), Unreadable, CountryFile, ProductionFile>>,
      <<Unreadable, File(<<MineralRow(2, "Cobalt")>>), CountryFile, ProductionFile>>,
      <<File(<<MineralRow(1, "Gold")>>), File(<<MineralRow(2, "Cobalt")>>), Unreadable,
        ProductionFile>>,
      NoProductionFiles,
      HeaderOnlyProductionFiles }

FewSiteFiles ==
    { Unreadable,
      File(<<SiteRow(1, RowChoice(1, 1, Johannesburg))>>),
      File(<<SiteRow(1, RowChoice(1, 1, Transposed)),
             SiteRow(2, RowChoice(3, 2, FartherSwapped))>>) }

\* The inputs of a run: every site file with the plain reference files, and
\* a few site files with the others.
Inputs ==
    {<<sf, RefFiles>> : sf \in SiteFiles}
    \cup {<<sf, rf>> : sf \in FewSiteFiles, rf \in OtherRefFiles}

UserRow(name, pw, rid) == [Username |-> name, PasswordHash |-> pw, RoleID |-> rid]
RoleRow(rid, name) ==
    [RoleID |-> rid, RoleName |-> name, Permissions |-> "see the handbook"]

UsersFile ==
    File(<<UserRow("admin01", "pw", 1), UserRow("inv01", "pw", 2),
           UserRow("res01", "pw", 3), UserRow("guest01", "pw", 4)>>)

RolesFile ==
    File(<<RoleRow(1, "Administrator"), RoleRow(2, "Investor"),
           RoleRow(3, "Researcher"), RoleRow(4, "Guest")>>)

Undefined == [defined |-> FALSE, rows |-> <<>>]
Frame(rows) == [defined |-> TRUE, rows |-> rows]
\* A frame with its columns, which it has with or without rows.
DataFrame(columns, rows) == [defined |-> TRUE, rows |-> rows, columns |-> columns]
NoFile == [ok |-> FALSE, rows |-> <<>>]

\* A dict with no key.
EmptyDict == [k \in {} |-> 0]

PipeInit(sf, rf, uf, rof) ==
    /\ users_csv = uf
    /\ roles_csv = rof
    /\ users = EmptyDict
    /\ roles_df = Undefined
    /\ PERMISSIONS = EmptyDict
    /\ session = EmptyDict
    /\ response = [route |-> "", result |-> ""]
    /\ sites_csv = sf
    /\ minerals_csv = rf[1]
    /\ extra_minerals_csv = rf[2]
    /\ countries_csv = rf[3]
    /\ production_stats_csv = rf[4]
    /\ df = Undefined
    /\ sites_fixed_csv = NoFile
    /\ minerals_df = Undefined
    /\ countries_df = Undefined
    /\ sites_df = <<>>
    /\ sites = <<>>
    /\ corrections = <<>>
    /\ corrected_sites = <<>>
    /\ idx = 1
    /\ pass = 1
    /\ first_sites = <<>>
    /\ console = <<>>
    /\ pc = "minerals"
    /\ minerals = EmptyDict
    /\ countries = EmptyDict
    /\ insights = <<>>

Init == \E in \in Inputs : PipeInit(in[1], in[2], UsersFile, RolesFile)

(***************************************************************************)
(* The module-level script, in the order of the source.                    *)
(***************************************************************************)
\* set_index(key).to_dict('index'): the rows by key, each without its key
\* column; raises when two rows share a key.
UniqueKeys(rows, key) ==
    \A i, j \in DOMAIN rows : rows[i][key] = rows[j][key] => i = j
ToDictIndex(rows, key) ==
    [n \in {rows[i][key] : i \in DOMAIN rows} |->
        LET row == rows[CHOOSE i \in DOMAIN rows : rows[i][key] = n]
        IN  [col \in DOMAIN row \ {key} |-> row[col]]]

\* Lines 34-41.  A failed read of minerals.csv leaves minerals_df unbound; a
\* failed read of extra_minerals.csv leaves it bound to the first file; a
\* name in two rows makes line 38 raise after line 37 bound the
\* concatenation.  In each case minerals is the empty dict.
MineralsLoaded ==
    /\ minerals_csv.ok
    /\ extra_minerals_csv.ok
    /\ UniqueKeys(ConcatFrames(minerals_csv.rows, extra_minerals_csv.rows), "MineralName")

LoadMinerals ==
    /\ pc = "minerals"
    /\ minerals_df' =
         IF ~minerals_csv.ok THEN Undefined
         ELSE IF ~extra_minerals_csv.ok THEN Frame(minerals_csv.rows)
         ELSE Frame(ConcatFrames(minerals_csv.rows, extra_minerals_csv.rows))
    /\ minerals' =
         IF MineralsLoaded
           THEN ToDictIndex(ConcatFrames(minerals_csv.rows, extra_minerals_csv.rows),
                            "MineralName")
           ELSE EmptyDict
    /\ console' = IF MineralsLoaded THEN console
                  ELSE Append(console, "Error loading minerals")
    /\ pc' = "countries"
    /\ UNCHANGED <<inFiles, df, webVars, countries, insights,
                   sites_fixed_csv, countries_df, sites_df, sites, corrections,
                   corrected_sites, idx, pass, first_sites>>

\* Lines 43-48.  A name in two rows makes line 45 raise after line 44 bound
\* countries_df.
CountriesLoaded ==
    countries_csv.ok /\ UniqueKeys(countries_csv.rows, "CountryName")

LoadCountries ==
    /\ pc = "countries"
    /\ countries_df' = IF countries_csv.ok THEN Frame(countries_csv.rows) ELSE Undefined
    /\ countries' = IF CountriesLoaded
                      THEN ToDictIndex(countries_csv.rows, "CountryName")
                      ELSE EmptyDict
    /\ console' = IF CountriesLoaded THEN console
                  ELSE Append(console, "Error loading countries")
    /\ pc' = "production"
    /\ UNCHANGED <<inFiles, df, webVars, minerals, insights,
                   sites_fixed_csv, minerals_df, sites_df, sites, corrections,
                   corrected_sites, idx, pass, first_sites>>

\* Line 57: rename(columns={'MineralName': 'mineral', 'CountryName': 'country'}).
RenameColumns(row) ==
    [col \in (DOMAIN row \ {"MineralName", "CountryName"}) \cup {"mineral", "country"} |->
        IF col = "mineral" THEN row.MineralName
        ELSE IF col = "country" THEN row.CountryName
        ELSE row[col]]

\* Lines 51-57 raise: production_stats.csv cannot be read, or minerals_df or
\* countries_df is unbound (NameError).
ProductionLoadRaises ==
    ~production_stats_csv.ok \/ ~minerals_df.defined \/ ~countries_df.defined

\* Lines 50-60: the production table with the names joined in; an empty
\* frame when the block raises.
LoadProduction ==
    /\ pc = "production"
    /\ df' =
         IF ProductionLoadRaises THEN DataFrame({}, <<>>)
         ELSE LET joined ==
                    LeftMerge(LeftMerge(production_stats_csv.rows, minerals_df.rows,
                                        "MineralID", "MineralName"),
                              countries_df.rows, "CountryID", "CountryName")
              IN  \* the two merges add MineralName and CountryName, which
                  \* line 57 renames
                  DataFrame(production_stats_csv.columns \cup {"mineral", "country"},
                            [k \in DOMAIN joined |-> RenameColumns(joined[k])])
    /\ console' = IF ProductionLoadRaises
                    THEN Append(console, "Error loading production")
                    ELSE console
    /\ pc' = "users"
    /\ UNCHANGED <<inFiles, pipeVars, webVars, adminVars>>

\* Lines 62-67.
LoadUsers ==
    /\ pc = "users"
    /\ users' = IF users_csv.ok /\ UniqueKeys(users_csv.rows, "Username")
                   THEN ToDictIndex(users_csv.rows, "Username")
                   ELSE EmptyDict
    /\ console' = IF users_csv.ok /\ UniqueKeys(users_csv.rows, "Username")
                   THEN console ELSE Append(console, "Error loading users")
    /\ pc' = "roles"
    /\ UNCHANGED <<inFiles, df, pipeVars, adminVars, roles_df, PERMISSIONS, session, response>>

\* Lines 75-84: the permissions of a role name.
RolePermissions(role_name) ==
    IF role_name = "Administrator" THEN {"all"}
    ELSE IF role_name = "Investor" THEN {"profiles", "charts", "production"}
    ELSE IF role_name = "Researcher"
      THEN {"database", "export", "insights", "profiles", "map"}
    ELSE {}

\* Lines 72-74 read both columns of every row: a row without one of them
\* raises KeyError.
RolesLoaded ==
    /\ roles_csv.ok
    /\ \A i \in DOMAIN roles_csv.rows :
          {"RoleName", "Permissions"} \subseteq DOMAIN roles_csv.rows[i]

\* Lines 69-87.  A failed read leaves roles_df unbound and PERMISSIONS empty;
\* a KeyError in the loop leaves roles_df bound and PERMISSIONS empty.
LoadRoles ==
    /\ pc = "roles"
    /\ roles_df' = IF roles_csv.ok THEN Frame(roles_csv.rows) ELSE Undefined
    /\ PERMISSIONS' =
         IF RolesLoaded
           THEN [n \in {roles_csv.rows[i].RoleName : i \in DOMAIN roles_csv.rows} |->
                    RolePermissions(n)]
           ELSE EmptyDict
    /\ console' = IF RolesLoaded THEN console
                  ELSE Append(console, "Error loading roles")
    /\ pc' = "sites"
    /\ UNCHANGED <<inFiles, df, pipeVars, adminVars, users, session, response>>

\* Lines 90-96 raise: sites.csv cannot be read, or minerals_df or
\* countries_df is unbound (NameError).
SitesLoadRaises == ~sites_csv.ok \/ ~minerals_df.defined \/ ~countries_df.defined

\* Lines 89-106: read, join, and the two empty lists of the loop.
LoadSites ==
    /\ pc = "sites"
    /\ ~SitesLoadRaises
    /\ sites_df' = JoinSites(sites_csv.rows, minerals_df.rows, countries_df.rows)
    /\ sites' = ToRecords(sites_df')
    /\ corrections' = <<>>
    /\ corrected_sites' = <<>>
    /\ idx' = 1
    /\ pc' = "loop"
    /\ UNCHANGED <<inFiles, df, webVars, adminVars,
                   sites_fixed_csv, minerals_df, countries_df, pass, first_sites,
                   console>>

\* Lines 161-163: the handler of the whole block.  When sites.csv was read,
\* line 90 has bound sites_df to its rows before line 92 or 93 raised.
LoadSitesFails ==
    /\ pc = "sites"
    /\ SitesLoadRaises
    /\ sites_df' = IF sites_csv.ok THEN sites_csv.rows ELSE sites_df
    /\ sites' = <<>>
    /\ console' = Append(console, "Error loading sites")
    /\ pc' = "serve"
    /\ UNCHANGED <<inFiles, df, webVars, adminVars,
                   sites_fixed_csv, minerals_df, countries_df,
                   corrections, corrected_sites, idx, pass, first_sites>>

\* Lines 107-140: one iteration.  The dict is changed in place, so the list
\* sites sees the change too.
ValidateStep ==
    /\ pc = "loop"
    /\ idx <= Len(sites)
    /\ LET r == ValidateSite(sites[idx])
       IN  /\ sites' = [sites EXCEPT ![idx] = r.site]
           /\ corrected_sites' = Append(corrected_sites, r.site)
           /\ corrections' = corrections \o r.events
    /\ idx' = idx + 1
    /\ UNCHANGED <<inFiles, df, webVars, adminVars,
                   sites_fixed_csv, minerals_df, countries_df, sites_df, pass,
                   first_sites, console, pc>>

\* Lines 143-153: the header and one line per event.
ReportLines(evs) ==
    <<"Site coordinate corrections applied:">> \o
    [k \in 1..Len(evs) |->
        IF evs[k].action = "swap_latlon" THEN " - swapped"
        ELSE IF evs[k].action = "mismatch" THEN " - mismatch"
        ELSE " - other"]

WroteLine == "Wrote corrected sites to data/sites_fixed.csv"
FailedLine == "Failed to write corrected sites CSV"

\* Lines 141-142 with an empty log: nothing is printed or written.
FinishQuiet ==
    /\ pc = "loop"
    /\ idx > Len(sites)
    /\ corrections = <<>>
    /\ sites' = corrected_sites
    /\ pc' = "serve"
    /\ UNCHANGED <<inFiles, df, webVars, adminVars,
                   sites_fixed_csv, minerals_df, countries_df, sites_df,
                   corrections, corrected_sites, idx, pass, first_sites, console>>

\* Lines 141-158: the report, and the write succeeds.
FinishExport ==
    /\ pc = "loop"
    /\ idx > Len(sites)
    /\ corrections # <<>>
    /\ sites' = corrected_sites
    /\ console' = (console \o ReportLines(corrections)) \o <<WroteLine>>
    /\ sites_fixed_csv' = File(corrected_sites)
    /\ pc' = "serve"
    /\ UNCHANGED <<inFiles, df, webVars, adminVars,
                   minerals_df, countries_df, sites_df, corrections,
                   corrected_sites, idx, pass, first_sites>>

\* Mutant of AfterWriteFailure: the list is reset as in lines 161-163.
AfterWriteFailureReset(list) == <<>>

\* What the handler of lines 159-160 leaves in sites.
AfterWriteFailure(list) == list

\* Lines 141-160: the report, and the write raises.
FinishExportFails ==
    /\ pc = "loop"
    /\ idx > Len(sites)
    /\ corrections # <<>>
    /\ sites' = AfterWriteFailure(corrected_sites)
    /\ console' = (console \o ReportLines(corrections)) \o <<FailedLine>>
    /\ pc' = "serve"
    /\ UNCHANGED <<inFiles, df, webVars, adminVars,
                   sites_fixed_csv, minerals_df, countries_df, sites_df,
                   corrections, corrected_sites, idx, pass, first_sites>>

Next ==
    \/ LoadMinerals
    \/ LoadCountries
    \/ LoadProduction
    \/ LoadUsers
    \/ LoadRoles
    \/ LoadSites
    \/ LoadSitesFails
    \/ ValidateStep
    \/ FinishQuiet
    \/ FinishExport
    \/ FinishExportFails

Spec == Init /\ [][Next]_vars

(***************************************************************************)
(* Vocabulary of the properties.                                           *)
(***************************************************************************)
\* The loop is about to process sites[idx].
AtSite == pc = "loop" /\ idx <= Len(sites)

LatOf(s) == PyFloat(s.Latitude).f
LonOf(s) == PyFloat(s.Longitude).f
Parses(s) == PyFloat(s.Latitude).ok /\ PyFloat(s.Longitude).ok
Known(s) == s.CountryName \in DOMAIN country_centroids
CentroidOf(s) == country_centroids[s.CountryName]

\* |lat - c_lat|, |lon - c_lon| and the two rectangular distances.
DLat(s) == FAbs(FSub(LatOf(s), CentroidOf(s)[1]))
DLon(s) == FAbs(FSub(LonOf(s), CentroidOf(s)[2]))
DistOrig(s) == FAdd(DLat(s), DLon(s))
DistSwapped(s) ==
    FAdd(FAbs(FSub(LonOf(s), CentroidOf(s)[1])), FAbs(FSub(LatOf(s), CentroidOf(s)[2])))
InWindow(s) == FLe(DLat(s), Fl(10 * Micro)) /\ FLe(DLon(s), Fl(20 * Micro))
OutOfWindow(s) == FGt(DLat(s), Fl(10 * Micro)) \/ FGt(DLon(s), Fl(20 * Micro))

\* The record the first pass read at position k.
InputAt(k) == ToRecords(sites_df)[k]

\* This step exchanges the coordinates of sites[idx], sets the swap note and
\* appends exactly the swap event.
SwapsHere ==
    LET s == sites[idx] IN
    /\ LatOf(sites'[idx]) = LonOf(s)
    /\ LonOf(sites'[idx]) = LatOf(s)
    /\ sites'[idx].Note = SwapNote
    /\ corrected_sites' = Append(corrected_sites, sites'[idx])
    /\ Len(corrections') = Len(corrections) + 1
    /\ LET e == corrections'[Len(corrections')] IN
         /\ SubSeq(corrections', 1, Len(corrections)) = corrections
         /\ e.action = "swap_latlon"
         /\ e.SiteID = s.SiteID
         /\ e.old = <<LatOf(s), LonOf(s)>>
         /\ e.new = <<LonOf(s), LatOf(s)>>

\* This step leaves sites[idx] as it is and appends no event.
PassesHere ==
    /\ sites'[idx] = sites[idx]
    /\ corrected_sites' = Append(corrected_sites, sites[idx])
    /\ corrections' = corrections

(***************************************************************************)
(* C2 as stated: every record with dist_swapped < dist_orig is swapped and *)
(* gets exactly one swap_latlon event with old = (lat, lon) and            *)
(* new = (lon, lat).                                                       *)
(***************************************************************************)
C2_SwapWheneverCloser ==
    [][(AtSite /\ Parses(sites[idx]) /\ Known(sites[idx])
        /\ FLt(DistSwapped(sites[idx]), DistOrig(sites[idx]))) => SwapsHere]_vars

(***************************************************************************)
(* C2 amended: every record that lies outside the window of its centroid   *)
(* and has dist_swapped < dist_orig is swapped: the output latitude is the *)
(* input longitude and the output longitude the input latitude, and        *)
(* exactly one swap_latlon event with old = (lat, lon), new = (lon, lat)   *)
(* is appended.                                                            *)
(***************************************************************************)
C2_SwapCorrect ==
    [][(AtSite /\ Parses(sites[idx]) /\ Known(sites[idx])
        /\ OutOfWindow(sites[idx])
        /\ FLt(DistSwapped(sites[idx]), DistOrig(sites[idx]))) => SwapsHere]_vars

C2_Witness ==
    /\ pass = 1
    /\ \E k \in DOMAIN corrected_sites :
         /\ Parses(InputAt(k)) /\ Known(InputAt(k)) /\ OutOfWindow(InputAt(k))
         /\ FLt(DistSwapped(InputAt(k)), DistOrig(InputAt(k)))
         /\ LatOf(InputAt(k)) # LonOf(InputAt(k))
         /\ LatOf(corrected_sites[k]) = LonOf(InputAt(k))
         /\ \E j \in DOMAIN corrections : corrections[j].action = "swap_latlon"

(***************************************************************************)
(* C3: a record with a centroid, outside the window and with               *)
(* dist_swapped >= dist_orig (a tie included) keeps its coordinates, gets  *)
(* the manual-review note and exactly one mismatch event with the input    *)
(* pair as old and its country's centroid as country_centroid.             *)
(***************************************************************************)
C3_MismatchPreserved ==
    [][(AtSite /\ Parses(sites[idx]) /\ Known(sites[idx])
        /\ OutOfWindow(sites[idx])
        /\ FGe(DistSwapped(sites[idx]), DistOrig(sites[idx])))
       => LET s == sites[idx] IN
          /\ sites'[idx].Latitude = s.Latitude
          /\ sites'[idx].Longitude = s.Longitude
          /\ sites'[idx].Note = ReviewNote
          /\ corrected_sites' = Append(corrected_sites, sites'[idx])
          /\ Len(corrections') = Len(corrections) + 1
          /\ SubSeq(corrections', 1, Len(corrections)) = corrections
          /\ LET e == corrections'[Len(corrections')] IN
               /\ e.action = "mismatch"
               /\ e.SiteID = s.SiteID
               /\ e.old = <<LatOf(s), LonOf(s)>>
               /\ e.country_centroid = CentroidOf(s)]_vars

\* A tie outside the window has been processed and flagged.
C3_Witness ==
    /\ pass = 1
    /\ \E k \in DOMAIN corrected_sites :
         /\ Parses(InputAt(k)) /\ Known(InputAt(k)) /\ OutOfWindow(InputAt(k))
         /\ DistSwapped(InputAt(k)) = DistOrig(InputAt(k))
         /\ LatOf(InputAt(k)) # LonOf(InputAt(k))
         /\ corrected_sites[k].Note = ReviewNote
         /\ \E j \in DOMAIN corrections : corrections[j].action = "mismatch"

(***************************************************************************)
(* C4: a record whose country name is not a key of the centroid table (an  *)
(* absent name included) keeps its latitude and longitude, gets no note    *)
(* and no event, whatever its coordinates are.                             *)
(***************************************************************************)
C4_UnknownCountryUntouched ==
    [][(AtSite /\ ~Known(sites[idx]))
       => /\ sites'[idx].Latitude = sites[idx].Latitude
          /\ sites'[idx].Longitude = sites[idx].Longitude
          /\ sites'[idx].Note = sites[idx].Note
          /\ corrected_sites' = Append(corrected_sites, sites[idx])
          /\ corrections' = corrections]_vars

\* A record with an absent country name, and one with a name that has no
\* centroid, both with coordinates that look transposed, have gone through.
C4_Witness ==
    /\ pass = 1
    /\ \E k \in DOMAIN corrected_sites :
         /\ InputAt(k).CountryName = NoName
         /\ Parses(InputAt(k))
         /\ corrected_sites[k].Note = NoNote
    /\ \E k \in DOMAIN corrected_sites :
         /\ InputAt(k).CountryName = "Zambia"
         /\ Parses(InputAt(k))
         /\ corrected_sites[k].Note = NoNote

(***************************************************************************)
(* C6 as stated: a record whose latitude or longitude is missing or        *)
(* non-numeric is appended unchanged, gets no note and no event, and the   *)
(* loop goes on to the next record.                                        *)
(***************************************************************************)
Malformed(c) == c.k = "text" \/ c.k = "absent" \/ (c.k = "float" /\ c.nan)

C6_MalformedSkipped ==
    [][(AtSite /\ (Malformed(sites[idx].Latitude) \/ Malformed(sites[idx].Longitude)))
       => PassesHere /\ pc' = "loop" /\ idx' = idx + 1]_vars

(***************************************************************************)
(* C7: while the start-up script runs, the coordinate fields of a record   *)
(* change only by an exchange, and only when the record's country has a    *)
(* centroid and dist_swapped < dist_orig.                                  *)
(***************************************************************************)
C7_SwapOnlyWhenJustified ==
    [][pc # "serve" =>
        \A k \in DOMAIN sites :
            (k \in DOMAIN sites' /\ (sites'[k].Latitude # sites[k].Latitude
                                     \/ sites'[k].Longitude # sites[k].Longitude))
            => /\ Parses(sites[k]) /\ Known(sites[k])
               /\ FLt(DistSwapped(sites[k]), DistOrig(sites[k]))
               /\ LatOf(sites'[k]) = LonOf(sites[k])
               /\ LonOf(sites'[k]) = LatOf(sites[k])]_vars

C7_Witness ==
    /\ pass = 1
    /\ \E k \in DOMAIN corrected_sites :
         /\ corrected_sites[k].Latitude # InputAt(k).Latitude
         /\ Known(InputAt(k))
    /\ \E k \in DOMAIN corrected_sites :
         /\ Known(InputAt(k)) /\ Parses(InputAt(k)) /\ OutOfWindow(InputAt(k))
         /\ corrected_sites[k].Latitude = InputAt(k).Latitude

(***************************************************************************)
(* C10: a record with a centroid and with |lat - c_lat| <= 10 and          *)
(* |lon - c_lon| <= 20 (10 and 20 themselves included) is left as it is:   *)
(* same coordinates, no note, no event, even when the transposed pair is   *)
(* closer to the centroid.                                                 *)
(***************************************************************************)
C10_WindowProtects ==
    [][(AtSite /\ Parses(sites[idx]) /\ Known(sites[idx]) /\ InWindow(sites[idx]))
       => PassesHere]_vars

\* A record exactly 10 and 20 degrees from its centroid, whose transposed
\* pair is closer, has gone through untouched.
C10_Witness ==
    /\ pass = 1
    /\ \E k \in DOMAIN corrected_sites :
         /\ Parses(InputAt(k)) /\ Known(InputAt(k))
         /\ DLat(InputAt(k)) = Fl(10 * Micro)
         /\ DLon(InputAt(k)) = Fl(20 * Micro)
         /\ FLt(DistSwapped(InputAt(k)), DistOrig(InputAt(k)))
         /\ corrected_sites[k] = InputAt(k)
         /\ corrections = <<>>

(***************************************************************************)
(* C5 as stated: with all four files read, the joins and the loop give     *)
(* exactly one site record per row of sites.csv, in the same identifier    *)
(* order, and a row whose identifier is in no reference row keeps an       *)
(* absent name.                                                            *)
(***************************************************************************)
AllFilesRead ==
    sites_csv.ok /\ minerals_csv.ok /\ extra_minerals_csv.ok /\ countries_csv.ok

IdsOf(list) == [k \in DOMAIN list |-> list[k].SiteID]

C5_OneRecordPerRow ==
    (AllFilesRead /\ pass = 1) =>
        /\ pc \in {"loop", "serve"} =>
             /\ IdsOf(sites_df) = IdsOf(sites_csv.rows)
             /\ \A k \in DOMAIN sites_df :
                  /\ (\A j \in DOMAIN minerals_df.rows :
                          minerals_df.rows[j].MineralID # sites_df[k].MineralID)
                     => sites_df[k].MineralName = NoName
                  /\ (\A j \in DOMAIN countries_df.rows :
                          countries_df.rows[j].CountryID # sites_df[k].CountryID)
                     => sites_df[k].CountryName = NoName
        /\ pc = "serve" => IdsOf(corrected_sites) = IdsOf(sites_csv.rows)

(***************************************************************************)
(* C8: the step that ends the run never touches sites.csv; with an empty   *)
(* event log it prints nothing and writes nothing; and when the write of   *)
(* sites_fixed.csv fails, the failure is printed, the script goes on, and  *)
(* the site list and the event log are what they were before the attempt   *)
(* (the site list is not emptied).                                         *)
(***************************************************************************)
LastLine(c) == IF c = <<>> THEN "" ELSE c[Len(c)]

C8_WriteFailureIsolated ==
    [][(pc = "loop" /\ idx > Len(sites)) =>
        /\ sites_csv' = sites_csv
        /\ corrections = <<>> =>
             (console' = console /\ sites_fixed_csv' = sites_fixed_csv)
        /\ (corrections # <<>> /\ sites_fixed_csv' = sites_fixed_csv) =>
             /\ LastLine(console') = FailedLine
             /\ sites' = sites
             /\ sites' # <<>>
             /\ corrections' = corrections
             /\ pc' = "serve"]_vars

\* The write has failed after a run that logged events.
C8_Witness ==
    /\ pc = "serve"
    /\ pass = 1
    /\ LastLine(console) = FailedLine
    /\ corrections # <<>>
    /\ sites # <<>>
    /\ ~sites_fixed_csv.ok

(***************************************************************************)
(* A second run of the loop over the list the first run produced.          *)
(***************************************************************************)
\* Lines 105-107 again, with sites the output of the first run.
Rerun ==
    /\ pc = "serve"
    /\ pass = 1
    /\ sites # <<>>
    /\ first_sites' = sites
    /\ corrections' = <<>>
    /\ corrected_sites' = <<>>
    /\ idx' = 1
    /\ pass' = 2
    /\ pc' = "loop"
    /\ UNCHANGED <<inFiles, df, webVars, adminVars,
                   sites_fixed_csv, minerals_df, countries_df, sites_df, sites,
                   console>>

NextRerun == Next \/ Rerun

SpecRerun == Init /\ [][NextRerun]_vars

\* The second run is about to process a record the first run swapped.
AtSwapped == AtSite /\ pass = 2 /\ first_sites[idx].Note = SwapNote

(***************************************************************************)
(* C1 as stated: in the second run every record that the first run swapped *)
(* is classified consistent: coordinates and note unchanged, no event.     *)
(***************************************************************************)
C1_SwappedThenConsistent == [][AtSwapped => PassesHere]_vars

(***************************************************************************)
(* C1 amended: in the second run a record that the first run swapped keeps *)
(* its coordinates and gets no swap_latlon event; it is classified         *)
(* consistent (note unchanged, no event) when the swapped pair lies within *)
(* the window of its centroid, and unresolved_mismatch otherwise (the note *)
(* becomes the manual-review text and one mismatch event is appended).     *)
(***************************************************************************)
C1_SwappedNotSwappedAgain ==
    [][AtSwapped =>
        LET s == sites[idx] IN
        /\ sites'[idx].Latitude = s.Latitude
        /\ sites'[idx].Longitude = s.Longitude
        /\ \A j \in DOMAIN corrections' :
               j > Len(corrections) => corrections'[j].action # "swap_latlon"
        /\ InWindow(s) => PassesHere
        /\ ~InWindow(s) =>
             /\ sites'[idx].Note = ReviewNote
             /\ Len(corrections') = Len(corrections) + 1
             /\ corrections'[Len(corrections')].action = "mismatch"
             /\ corrections'[Len(corrections')].SiteID = s.SiteID]_vars

\* The second run has met a swapped record inside the window and one that
\* is still outside it.
C1_Witness ==
    /\ pass = 2
    /\ \E k \in DOMAIN corrected_sites :
         first_sites[k].Note = SwapNote /\ corrected_sites[k].Note = SwapNote
    /\ \E k \in DOMAIN corrected_sites :
         first_sites[k].Note = SwapNote /\ corrected_sites[k].Note = ReviewNote

(***************************************************************************)
(* The web layer: one client, its session, and the last thing it did.      *)
(***************************************************************************)
Serving == pc = "serve" /\ pass = 1

\* PERMISSIONS.get(role, [])
PermsOf(role) == IF role \in DOMAIN PERMISSIONS THEN PERMISSIONS[role] ELSE {}

\* Mutant of Allowed: 'all' is not honoured.
AllowedByNameOnly(perms, feature) == feature \in perms

\* 'feature' in perms or 'all' in perms (lines 312, 384, 407, 469).
Allowed(perms, feature) == feature \in perms \/ "all" \in perms

\* d[key] = value
DictSet(d, key, value) == (key :> value) @@ d

\* Line 180: the name of the role with this identifier.  raises: no such
\* row (IndexError) or roles_df unbound (NameError).
RoleNameOf(role_id) ==
    LET Hit(r) == r.RoleID = role_id
        m == IF roles_df.defined THEN SelectSeq(roles_df.rows, Hit) ELSE <<>>
    IN  IF ~roles_df.defined THEN [raises |-> TRUE, name |-> ""]
        ELSE IF roles_df.rows = <<>> THEN [raises |-> FALSE, name |-> "Unknown"]
        ELSE IF m = <<>> THEN [raises |-> TRUE, name |-> ""]
        ELSE [raises |-> FALSE, name |-> m[1].RoleName]

Usernames == {"admin01", "inv01", "res01", "guest01", "ghost01", "nobody"}
Passwords == {"pw", "wrong"}

\* Lines 171-187.  When line 180 raises, session['user'] is already set:
\* the 500 response carries it unless the app propagates exceptions.
Login(method, username, password) ==
    /\ Serving
    /\ IF method = "GET"
         THEN /\ response' = [route |-> "login", result |-> "served"]
              /\ UNCHANGED session
       ELSE IF username \in DOMAIN users /\ users[username].PasswordHash = password
         THEN LET rn == RoleNameOf(users[username].RoleID)
                  s1 == DictSet(session, "user", username)
              IN  IF rn.raises
                    THEN /\ response' = [route |-> "login", result |-> "error"]
                         /\ session' \in {s1, session}
                    ELSE /\ response' = [route |-> "login", result |-> "redirect:dashboard"]
                         /\ session' = DictSet(s1, "role", rn.name)
       ELSE /\ response' = [route |-> "login", result |-> "served"]
            /\ UNCHANGED session
    /\ UNCHANGED <<inFiles, df, pipeVars, adminVars, users, roles_df, PERMISSIONS, console, pc>>

\* Lines 189-192.
Logout ==
    /\ Serving
    /\ session' = EmptyDict
    /\ response' = [route |-> "logout", result |-> "redirect:login"]
    /\ UNCHANGED <<inFiles, df, pipeVars, adminVars, users, roles_df, PERMISSIONS, console, pc>>

\* Tests/test_charts.py lines 5-7: the test client writes the session.
SessionTransaction ==
    /\ Serving
    /\ session' = DictSet(DictSet(session, "user", "admin01"), "role", "Administrator")
    /\ response' = [route |-> "session_transaction", result |-> ""]
    /\ UNCHANGED <<inFiles, df, pipeVars, adminVars, users, roles_df, PERMISSIONS, console, pc>>

\* The columns of a frame: none for pd.DataFrame() of line 60, those of the
\* header and of the two merges for the frame of line 57, rows or no rows.
ColumnsOf(frame) == frame.columns

\* Lines 413-416: filtered_df['mineral'] or filtered_df['country'] of a frame
\* without that column raises KeyError.
ChartsFilterRaises(mineral_filter, country_filter) ==
    \/ mineral_filter # "all" /\ "mineral" \notin ColumnsOf(df)
    \/ country_filter # "all" /\ "country" \notin ColumnsOf(df)

\* Lines 412-419: the rows of df with this mineral and this country, and all
\* of df when no row is left.
filtered_df(mineral_filter, country_filter) ==
    LET Shown(r) == /\ mineral_filter = "all" \/ r["mineral"] = mineral_filter
                    /\ country_filter = "all" \/ r["country"] = country_filter
        kept == SelectSeq(df.rows, Shown)
    IN  IF kept = <<>> THEN df.rows ELSE kept

\* Lines 405-465: the gate of line 407 (session['role'] of a session without
\* a role raises KeyError), then the filters, then the two figures.
ChartsResult(mineral_filter, country_filter) ==
    IF "user" \notin DOMAIN session THEN "redirect:dashboard"
    ELSE IF "role" \notin DOMAIN session THEN "error"
    ELSE IF ~Allowed(PermsOf(session["role"]), "charts") THEN "redirect:dashboard"
    ELSE IF ChartsFilterRaises(mineral_filter, country_filter) THEN "error"
    ELSE "served"

\* Lines 434-439: the placeholder figure when no row is left to chart, the
\* bar chart of the rows otherwise.
ChartsFigure(mineral_filter, country_filter) ==
    IF ChartsResult(mineral_filter, country_filter) # "served" THEN <<>>
    ELSE filtered_df(mineral_filter, country_filter)

\* Lines 405-465: GET /interactive_charts?mineral=..&country=..; the response
\* keeps the two query parameters and the rows charted.
InteractiveCharts(mineral_filter, country_filter) ==
    /\ Serving
    /\ response' = [route |-> "interactive_charts",
                    result |-> ChartsResult(mineral_filter, country_filter),
                    mineral_filter |-> mineral_filter,
                    country_filter |-> country_filter,
                    chart |-> ChartsFigure(mineral_filter, country_filter)]
    /\ UNCHANGED <<inFiles, df, pipeVars, adminVars, users, roles_df, PERMISSIONS, session, console, pc>>

\* del d[key]
DictDel(d, key) == [k \in DOMAIN d \ {key} |-> d[k]]

\* A request of POST /set_theme: its form, and its JSON body when it has one.
FormRequest(form) == [form |-> form, is_json |-> FALSE, json |-> EmptyDict]
JsonRequest(json) == [form |-> EmptyDict, is_json |-> TRUE, json |-> json]

\* Line 23: request.form.get('theme') or (request.json.get('theme') if
\* request.is_json else None); an empty form value counts as none given.
NoTheme == [none |-> TRUE, v |-> ""]
ThemeOf(req) ==
    IF "theme" \in DOMAIN req.form /\ req.form["theme"] # ""
      THEN [none |-> FALSE, v |-> req.form["theme"]]
    ELSE IF req.is_json /\ "theme" \in DOMAIN req.json
      THEN [none |-> FALSE, v |-> req.json["theme"]]
    ELSE NoTheme

\* Lines 20-31.
SetTheme(req) ==
    /\ Serving
    /\ LET theme == ThemeOf(req) IN
       IF ~theme.none /\ theme.v \notin {"light", "dark", "system"}
         THEN /\ response' = [route |-> "set_theme", result |-> "400"]
              /\ UNCHANGED session
       ELSE /\ response' = [route |-> "set_theme", result |-> "204"]
            /\ session' = IF theme.none \/ theme.v = "system"
                            THEN DictDel(session, "theme")
                            ELSE DictSet(session, "theme", theme.v)
    /\ UNCHANGED <<inFiles, df, pipeVars, adminVars, users, roles_df, PERMISSIONS,
                   console, pc>>

\* The bodies of POST /set_theme: a theme, 'system', a theme the handler
\* does not know, an empty value and no value, in a form and in JSON.
ThemeRequests ==
    {FormRequest([theme |-> t]) : t \in {"dark", "system", "neon", ""}}
    \cup {FormRequest(EmptyDict)}
    \cup {JsonRequest([theme |-> t]) : t \in {"dark", ""}}
    \cup {JsonRequest(EmptyDict)}

\* request.args of GET /interactive_charts: no parameter ('all'), a mineral
\* and a country of the table, and a country of no row.
ChartsQueries ==
    {<<"all", "all">>, <<"Gold", "all">>, <<"all", "South Africa">>, <<"Gold", "Atlantis">>}

NextWeb ==
    \/ Next
    \/ \E m \in {"GET", "POST"}, u \in Usernames, p \in Passwords : Login(m, u, p)
    \/ Logout
    \/ SessionTransaction
    \/ \E q \in ChartsQueries : InteractiveCharts(q[1], q[2])
    \/ \E req \in ThemeRequests : SetTheme(req)

WebUsersFiles ==
    { UsersFile,
      File(UsersFile.rows \o <<UserRow("ghost01", "pw", 9)>>),
      Unreadable }

WebRolesFiles ==
    { RolesFile,
      File(<<RoleRow(2, "Investor"), RoleRow(3, "Researcher")>>),
      \* a file without the Permissions column
      File(<<[RoleID |-> 1, RoleName |-> "Administrator"],
             [RoleID |-> 2, RoleName |-> "Investor"]>>),
      File(<<>>),
      Unreadable }

InitWeb ==
    \E sf \in FewSiteFiles,
       rf \in {RefFiles, NoProductionFiles, HeaderOnlyProductionFiles},
       uf \in WebUsersFiles, rof \in WebRolesFiles :
        PipeInit(sf, rf, uf, rof)

SpecWeb == InitWeb /\ [][NextWeb]_vars

(***************************************************************************)
(* C9 as stated: GET /interactive_charts is served, that is not redirected *)
(* to the dashboard, exactly when the session holds a user and the         *)
(* permission list of its role contains 'charts' or 'all'; a session with  *)
(* a user and the role Administrator is served; a session without a user   *)
(* is redirected to the dashboard.                                         *)
(***************************************************************************)
ChartsAnswered == response.route = "interactive_charts"
HasUser == "user" \in DOMAIN session
HasRole == "role" \in DOMAIN session
RoleGrantsCharts ==
    /\ HasRole
    /\ session["role"] \in DOMAIN PERMISSIONS
    /\ PERMISSIONS[session["role"]] \cap {"charts", "all"} # {}
IsAdministrator == HasRole /\ session["role"] = "Administrator"
Redirected == response.result = "redirect:dashboard"

RolesRead ==
    /\ roles_csv.ok
    /\ \A i \in DOMAIN roles_csv.rows :
           {"RoleName", "Permissions"} \subseteq DOMAIN roles_csv.rows[i]
Flagged(s) == Parses(s) /\ Known(s) /\ OutOfWindow(s)
ActionOf(s) ==
    IF FLt(DistSwapped(s), DistOrig(s)) THEN "swap_latlon" ELSE "mismatch"

\* The positions up to n of the flagged records, in input order.
FlaggedUpTo(n) ==
    LET IsFlagged(k) == Flagged(InputAt(k))
    IN  SelectSeq([k \in 1..n |-> k], IsFlagged)

LogMatchesInput ==
    LET ks == FlaggedUpTo(Len(corrected_sites)) IN
    /\ Len(corrections) = Len(ks)
    /\ \A j \in DOMAIN ks :
         LET e == corrections[j]
             s == InputAt(ks[j])
         IN  /\ e.SiteID = s.SiteID
             /\ e.SiteName = s.SiteName
             /\ e.action = ActionOf(s)
             /\ e.old = <<LatOf(s), LonOf(s)>>

LogOnlyGrows ==
    /\ Len(corrections') >= Len(corrections)
    /\ SubSeq(corrections', 1, Len(corrections)) = corrections

C11_AuditTrail == [](pass = 1 => LogMatchesInput) /\ [][LogOnlyGrows]_vars

\* A run has ended with two events, a swap and then a mismatch, in the
\* order of their sites, and the swapped record no longer has the
\* coordinates its event calls old.
C11_Witness ==
    /\ pc = "serve"
    /\ pass = 1
    /\ Len(corrections) = 2
    /\ corrections[1].action = "swap_latlon"
    /\ corrections[2].action = "mismatch"
    /\ corrections[1].SiteID < corrections[2].SiteID
    /\ corrections[1].old # <<LatOf(corrected_sites[1]), LonOf(corrected_sites[1])>>
    /\ corrections[1].old = <<LatOf(InputAt(1)), LonOf(InputAt(1))>>

(***************************************************************************)
(* C12: the loop changes no field of a record other than Latitude,         *)
(* Longitude and Note: SiteID, SiteName, MineralID, CountryID,             *)
(* MineralName, CountryName and Production_tonnes are after the run what   *)
(* they were before it, a step of the loop touches only the record it is   *)
(* at, and two records with the same coordinates and country come out the  *)
(* same whatever their position and their neighbours are.                  *)
(***************************************************************************)
KeptFields ==
    {"SiteID", "SiteName", "MineralID", "CountryID", "MineralName",
     "CountryName", "Production_tonnes"}

SameKept(a, b) == \A f \in KeptFields : a[f] = b[f]

SameInput(a, b) ==
    /\ a.Latitude = b.Latitude
    /\ a.Longitude = b.Longitude
    /\ a.CountryName = b.CountryName

SameOutcome(a, b) ==
    /\ a.Latitude = b.Latitude
    /\ a.Longitude = b.Longitude
    /\ a.Note = b.Note

LoopStepFrame ==
    pc = "loop" =>
        /\ Len(sites') = Len(sites)
        /\ \A k \in DOMAIN sites :
             /\ SameKept(sites'[k], sites[k])
             /\ DOMAIN sites'[k] = DOMAIN sites[k]
             /\ (idx > Len(sites) \/ k # idx) => sites'[k] = sites[k]

RunFrame ==
    /\ \A k \in DOMAIN corrected_sites : SameKept(corrected_sites[k], InputAt(k))
    /\ \A k, j \in DOMAIN corrected_sites :
         SameInput(InputAt(k), InputAt(j))
            => SameOutcome(corrected_sites[k], corrected_sites[j])
    /\ pc = "serve" =>
         \/ sites = corrected_sites
         \/ SitesLoadRaises

C12_Frame == [](pass = 1 => RunFrame) /\ [][LoopStepFrame]_vars

\* A run has ended in which two records with the same coordinates and
\* country, and different identifiers and names, were both swapped and both
\* kept the other fields they were read with.
C12_Witness ==
    /\ pc = "serve"
    /\ pass = 1
    /\ Len(corrected_sites) = 2
    /\ SameInput(InputAt(1), InputAt(2))
    /\ corrected_sites[1].Note = SwapNote
    /\ corrected_sites[2].Note = SwapNote
    /\ corrected_sites[1].Latitude # InputAt(1).Latitude
    /\ corrected_sites[1].SiteID # corrected_sites[2].SiteID
    /\ corrected_sites[1].SiteName = InputAt(1).SiteName
    /\ corrected_sites[2].SiteName = InputAt(2).SiteName

(***************************************************************************)
(* C14: a second run of the loop over the output of the first appends no   *)
(* swap_latlon event and leaves every record's latitude and longitude      *)
(* what the first run made them: a record the first run swapped is not     *)
(* swapped back, and a record the first run flagged as a mismatch is       *)
(* flagged again, with the same coordinates.                               *)
(***************************************************************************)
SecondRunKeeps ==
    /\ \A j \in DOMAIN corrections : corrections[j].action # "swap_latlon"
    /\ \A k \in DOMAIN corrected_sites :
         /\ corrected_sites[k].Latitude = first_sites[k].Latitude
         /\ corrected_sites[k].Longitude = first_sites[k].Longitude
         /\ first_sites[k].Note = ReviewNote =>
              /\ corrected_sites[k].Note = ReviewNote
              /\ \E j \in DOMAIN corrections :
                    /\ corrections[j].action = "mismatch"
                    /\ corrections[j].SiteID = first_sites[k].SiteID
                    /\ corrections[j].old =
                         <<LatOf(first_sites[k]), LonOf(first_sites[k])>>
    /\ pc = "serve" =>
         /\ Len(sites) = Len(first_sites)
         /\ \A k \in DOMAIN sites :
              /\ sites[k].Latitude = first_sites[k].Latitude
              /\ sites[k].Longitude = first_sites[k].Longitude

SecondRunStep ==
    (AtSite /\ pass = 2) =>
        /\ sites'[idx].Latitude = sites[idx].Latitude
        /\ sites'[idx].Longitude = sites[idx].Longitude
        /\ \A j \in DOMAIN corrections' : corrections'[j].action # "swap_latlon"

C14_FixedPoint == [](pass = 2 => SecondRunKeeps) /\ [][SecondRunStep]_vars

\* The second run has ended over a list in which the first run had swapped
\* one record and flagged another: the coordinates are those of the first
\* run's output, which are not those of the input, and the log of the
\* second run has no swap.
C14_Witness ==
    /\ pass = 2
    /\ pc = "serve"
    /\ \E k \in DOMAIN first_sites :
         /\ first_sites[k].Note = SwapNote
         /\ first_sites[k].Latitude # ToRecords(sites_df)[k].Latitude
         /\ sites[k].Latitude = first_sites[k].Latitude
         /\ sites[k].Longitude = first_sites[k].Longitude
    /\ \E k \in DOMAIN first_sites :
         /\ first_sites[k].Note = ReviewNote
         /\ sites[k].Note = ReviewNote
         /\ sites[k].Latitude = first_sites[k].Latitude
    /\ corrections # <<>>
    /\ \A j \in DOMAIN corrections : corrections[j].action = "mismatch"

(***************************************************************************)
(* The admin panel (lines 221-304).                                        *)
(***************************************************************************)
MaxAdded == 1                            \* sites the list may grow by

\* Mutant of AdminAllowed: every signed-in role passes.
AdminAllowedAnyRole(perms) == TRUE

\* Line 223: 'all' in PERMISSIONS.get(session['role'], []).
AdminAllowed(perms) == "all" \in perms

\* Line 223: the gate.  session['role'] of a session without a role raises
\* KeyError.
AdminGate ==
    IF "user" \notin DOMAIN session THEN "redirect:dashboard"
    ELSE IF "role" \notin DOMAIN session THEN "error"
    ELSE IF ~AdminAllowed(PermsOf(session["role"])) THEN "redirect:dashboard"
    ELSE "served"

\* The forms a client posts: the action and the fields the action reads.
\* The other fields of a form hold the same strings in every form.
AdminForms ==
    {[action |-> a, mineral_name |-> n] :
        a \in {"edit_mineral", "delete_mineral"}, n \in {"Gold", "Unobtainium"}}
    \cup {[action |-> "add_country", country_name |-> n] : n \in {"Namibia", "Zambia", ""}}
    \cup {[action |-> "delete_country", country_name |-> n] : n \in {"Namibia", "Atlantis"}}
    \cup {[action |-> "add_site", site_name |-> "Echo", site_country |-> f[1],
           site_mineral |-> f[2], latitude |-> f[3], longitude |-> StrCell(28000000)] :
            f \in {<<"South Africa", "Gold", StrCell(-26200000)>>,
                   <<"Atlantis", "Gold", StrCell(-26200000)>>,
                   <<"South Africa", "Unobtainium", StrCell(-26200000)>>,
                   <<"South Africa", "Gold", TextCell>>}}
    \cup {[action |-> "delete_site", site_name |-> n] : n \in {"Alpha", "Echo", "Nowhere"}}
    \cup {[action |-> "none"]}

\* Lines 296-301: the list without its first record of that name.
RECURSIVE DeleteFirst(_, _)
DeleteFirst(list, site_name) ==
    IF list = <<>> THEN <<>>
    ELSE IF Head(list).SiteName = site_name THEN Tail(list)
    ELSE <<Head(list)>> \o DeleteFirst(Tail(list), site_name)

\* Lines 280-287: the dict of a new site.
NewSite(form) ==
    [SiteName |-> form.site_name, CountryName |-> form.site_country,
     MineralName |-> form.site_mineral,
     Latitude |-> FloatCell(PyFloat(form.latitude).f),
     Longitude |-> FloatCell(PyFloat(form.longitude).f),
     Production_tonnes |-> 500]

\* Lines 228-303: what a POST leaves in minerals, countries and sites.
\* raises: float() rejected a coordinate of the form (line 284 or 285).
AdminEdit(form) ==
    LET same == [raises |-> FALSE, minerals |-> minerals,
                 countries |-> countries, sites |-> sites]
    IN  CASE form.action = "edit_mineral" ->
               IF form.mineral_name \in DOMAIN minerals
                 THEN [same EXCEPT !.minerals =
                         DictSet(minerals, form.mineral_name,
                            DictSet(DictSet(minerals[form.mineral_name],
                                            "Description", "revised"),
                                    "MarketPriceUSD_per_tonne", "100"))]
                 ELSE same
          [] form.action = "delete_mineral" ->
               IF form.mineral_name \in DOMAIN minerals
                 THEN [same EXCEPT !.minerals = DictDel(minerals, form.mineral_name)]
                 ELSE same
          [] form.action = "add_country" ->
               IF form.country_name # "" /\ form.country_name \notin DOMAIN countries
                 THEN [same EXCEPT !.countries =
                         DictSet(countries, form.country_name,
                            [GDP_BillionUSD |-> "1", MiningRevenue_BillionUSD |-> "1",
                             KeyProjects |-> "none"])]
                 ELSE same
          [] form.action = "delete_country" ->
               IF form.country_name \in DOMAIN countries
                 THEN [same EXCEPT !.countries = DictDel(countries, form.country_name)]
                 ELSE same
          [] form.action = "add_site" ->
               IF form.site_name # "" /\ form.site_country \in DOMAIN countries
                  /\ form.site_mineral \in DOMAIN minerals
                 THEN IF PyFloat(form.latitude).ok /\ PyFloat(form.longitude).ok
                        THEN [same EXCEPT !.sites = Append(sites, NewSite(form))]
                        ELSE [same EXCEPT !.raises = TRUE]
                 ELSE same
          [] form.action = "delete_site" ->
               [same EXCEPT !.sites = DeleteFirst(sites, form.site_name)]
          [] OTHER -> same

\* Lines 221-304.  After line 141 sites and corrected_sites name one list,
\* so an append or a deletion shows in both.
Admin(method, form) ==
    /\ Serving
    /\ form.action = "add_site" => Len(sites) < Len(sites_df) + MaxAdded
    /\ LET e == AdminEdit(form) IN
       IF AdminGate # "served"
         THEN /\ response' = [route |-> "admin", result |-> AdminGate]
              /\ UNCHANGED <<minerals, countries, sites, corrected_sites>>
       ELSE IF method = "GET"
         THEN /\ response' = [route |-> "admin", result |-> "served"]
              /\ UNCHANGED <<minerals, countries, sites, corrected_sites>>
       ELSE IF e.raises
         THEN /\ response' = [route |-> "admin", result |-> "error"]
              /\ UNCHANGED <<minerals, countries, sites, corrected_sites>>
       ELSE /\ response' = [route |-> "admin", result |-> "served"]
            /\ minerals' = e.minerals
            /\ countries' = e.countries
            /\ sites' = e.sites
            /\ corrected_sites' = IF SitesLoadRaises THEN corrected_sites ELSE e.sites
    /\ UNCHANGED <<inFiles, df, sites_fixed_csv, minerals_df, countries_df, sites_df,
                   corrections, idx, pass, first_sites, users, roles_df,
                   PERMISSIONS, session, insights, console, pc>>

(***************************************************************************)
(* The other pages the one client may ask for.                             *)
(***************************************************************************)
MaxInsights == 1                         \* insights the forms may add

\* The gate of lines 312, 384 and 469.
PageGate(feature) ==
    IF "user" \notin DOMAIN session THEN "redirect:dashboard"
    ELSE IF "role" \notin DOMAIN session THEN "error"
    ELSE IF ~Allowed(PermsOf(session["role"]), feature) THEN "redirect:dashboard"
    ELSE "served"

\* Lines 195-216.
Dashboard ==
    /\ Serving
    /\ response' = [route |-> "dashboard",
                    result |-> IF "user" \notin DOMAIN session THEN "redirect:login"
                               ELSE IF "role" \notin DOMAIN session THEN "error"
                               ELSE "served"]
    /\ UNCHANGED <<inFiles, df, pipeVars, adminVars, users, roles_df, PERMISSIONS,
                   session, console, pc>>

\* Lines 320-330 and 392-402: the insight form of a page.
MayAddInsight ==
    LET role == IF "role" \in DOMAIN session THEN session["role"] ELSE ""
    IN  role = "Researcher" \/ "insights" \in PermsOf(role)

InsightPage(route, feature, type, method, insight) ==
    /\ Serving
    /\ LET adds == /\ PageGate(feature) = "served"
                   /\ method = "POST"
                   /\ MayAddInsight
                   /\ insight # ""
       IN  /\ adds => Len(insights) < MaxInsights
           /\ insights' =
                IF adds
                  THEN Append(insights, [user |-> session["user"], insight |-> insight,
                                         type |-> type])
                  ELSE insights
    /\ response' = [route |-> route, result |-> PageGate(feature)]
    /\ UNCHANGED <<inFiles, df, pipeVars, minerals, countries, users, roles_df,
                   PERMISSIONS, session, console, pc>>

\* Lines 310-331.
MineralDatabase(method, insight) ==
    InsightPage("mineral_database", "database", "mineral", method, insight)

\* Lines 382-403.
CountryProfiles(method, insight) ==
    InsightPage("country_profiles", "profiles", "country", method, insight)

\* Lines 467-488.  site['Latitude'] of a dict without the key raises
\* KeyError.
GeographicalMap(mineral_filter) ==
    /\ Serving
    /\ LET Shown(s) == mineral_filter = "all" \/ s.MineralName = mineral_filter
           filtered_sites == SelectSeq(sites, Shown)
           raises == \E k \in DOMAIN filtered_sites :
                        \/ filtered_sites[k].Latitude.k = "absent"
                        \/ filtered_sites[k].Longitude.k = "absent"
       IN  response' = [route |-> "geographical_map",
                        result |-> IF PageGate("map") # "served" THEN PageGate("map")
                                   ELSE IF raises THEN "error"
                                   ELSE "served"]
    /\ UNCHANGED <<inFiles, df, pipeVars, adminVars, users, roles_df, PERMISSIONS,
                   session, console, pc>>

AdminUsernames == {"admin01", "res01", "nobody"}

NextAdmin ==
    \/ Next
    \/ \E m \in {"GET", "POST"}, u \in AdminUsernames, p \in Passwords : Login(m, u, p)
    \/ Logout
    \/ \E q \in {<<"all", "all">>, <<"Gold", "all">>} : InteractiveCharts(q[1], q[2])
    \/ \E m \in {"GET", "POST"}, f \in AdminForms : Admin(m, f)
    \/ \E t \in {"dark", "system", "neon", ""} : SetTheme(FormRequest([theme |-> t]))
    \/ Dashboard
    \/ \E m \in {"GET", "POST"}, i \in {"a note", ""} : MineralDatabase(m, i)
    \/ \E m \in {"GET", "POST"}, i \in {"a note", ""} : CountryProfiles(m, i)
    \/ \E mf \in {"all", "Gold"} : GeographicalMap(mf)

\* The site files with the plain reference files; the start-up where
\* sites.csv cannot be read is also the one where production_stats.csv
\* cannot.
InitAdmin ==
    \E sf \in FewSiteFiles :
        PipeInit(sf, IF sf = Unreadable THEN NoProductionFiles ELSE RefFiles,
                 UsersFile, RolesFile)

SpecAdmin == InitAdmin /\ [][NextAdmin]_vars

(***************************************************************************)
(* C13 as stated: while the application serves requests, the in-memory     *)
(* site list is the corrected list the pipeline produced at start-up and   *)
(* the mineral and country tables are what was loaded, whatever requests   *)
(* were made.                                                              *)
(***************************************************************************)
\* What lines 89-163 leave in sites, and lines 34-48 in minerals and
\* countries, computed again from the files.
StartupSites ==
    IF SitesLoadRaises THEN <<>>
    ELSE [k \in DOMAIN sites_df |-> ValidateSite(ToRecords(sites_df)[k]).site]

LoadedMinerals ==
    IF MineralsLoaded
      THEN ToDictIndex(ConcatFrames(minerals_csv.rows, extra_minerals_csv.rows),
                       "MineralName")
      ELSE EmptyDict

LoadedCountries ==
    IF CountriesLoaded THEN ToDictIndex(countries_csv.rows, "CountryName")
    ELSE EmptyDict

DataAsLoaded ==
    /\ sites = StartupSites
    /\ minerals = LoadedMinerals
    /\ countries = LoadedCountries

C13_FrontEndReadOnly == Serving => DataAsLoaded

(***************************************************************************)
(* C13 amended: when the application starts to serve, the in-memory site   *)
(* list is the corrected list of the pipeline and the mineral and country  *)
(* tables are what was loaded; after that only a POST to /admin from a     *)
(* session that holds a user whose role has the permission 'all' changes   *)
(* the site list, a mineral or a country; every other request, and every   *)
(* request of any other session, leaves all three as they were; and no     *)
(* request writes a data file.                                             *)
(***************************************************************************)
DataChanges == sites' # sites \/ minerals' # minerals \/ countries' # countries

OnlyAdminEdits ==
    Serving =>
        /\ DataChanges =>
             /\ response'.route = "admin"
             /\ response'.result = "served"
             /\ HasUser
             /\ "role" \in DOMAIN session
             /\ "all" \in PermsOf(session["role"])
             /\ session' = session
        /\ inFiles' = inFiles
        /\ sites_fixed_csv' = sites_fixed_csv

C13_OnlyAdminEdits ==
    [](Serving /\ response.route = "" => DataAsLoaded) /\ [][OnlyAdminEdits]_vars

\* An administrator has changed the site list, a mineral and a country.
C13_Witness ==
    /\ Serving
    /\ response.route = "admin"
    /\ HasUser /\ IsAdministrator
    /\ sites # StartupSites
    /\ minerals # LoadedMinerals
    /\ countries # LoadedCountries
    /\ StartupSites # <<>>

=============================================================================
